---- MODULE Spec2Model ----
(***************************************************************************)
(* Model of intervoo-audio: the Streamlit page of app.py (media prober,    *)
(* duration cache file, parallel probe scheduler, batch loop, sidebar      *)
(* filters, transcript extraction) and the reconciliation job of           *)
(* fix_durations.py.                                                       *)
(*                                                                         *)
(* Conventions.                                                            *)
(*  - A URL is a tuple of segments; the Python test `"amazonaws.com" in     *)
(*    url` and the SQL test LIKE '%amazonaws.com%' are a search for the    *)
(*    segment STORAGE_DOMAIN.  SQL NULL / Python None is NullUrl.          *)
(*  - A probed duration in seconds (a Python float) is an integer count of *)
(*    1/SecScale seconds, so that int(duration_sec * 1000) truncates.      *)
(*  - An optional value is a record [kind, val]: None, Some(d), Raised.    *)
(*  - Python lists are 1-based sequences here; enumerate(urls) indices are *)
(*    shifted by one.                                                      *)
(***************************************************************************)
EXTENDS Integers, Sequences, FiniteSets, TLC

VARIABLES
    \* ---- environment
    ffprobe_installed,  \* whether the ffprobe binary is on PATH
    toolCalls,          \* history: <<prober, url>> of every ffprobe process started
    \* ---- get_durations_parallel (app.py 91-114)
    p_pc,               \* "call" | "pool" | "returned"
    p_urls,             \* argument urls
    future_to_idx,      \* future (submission number) -> index into urls
    fstate,             \* future -> "queued" | "running" | "done" | "collected"
    fresult,            \* future -> outcome of its get_audio_duration call
    results,            \* the results list
    p_order,            \* history: the futures in the order as_completed yielded them
    p_ret,              \* the returned list
    \* ---- fix_durations.py main
    j_pc,               \* "connect" | "fetch" | "loop" | "update" | "commit" | "done" | "aborted" | "interrupted"
    dry_run,            \* args.dry_run
    resume_from,        \* args.resume_from: None or Some(id)
    limit,              \* args.limit: None or Some(n)
    include_dead_urls,  \* args.include_dead_urls
    db,                 \* committed rows of conversation_recordings: id -> row
    txn,                \* the connection's open transaction: uncommitted updates
    recordings,         \* rows fetched by fetch_recordings
    i,                  \* enumerate(recordings, 1) position
    duration_ms,        \* the local of the same name
    success,
    failed,
    skipped,
    exit_code,          \* None while running, then Some(status)
    summary,            \* whether the Summary block has been printed
    log,                \* history: the progress lines printed, one per record
    db_start,           \* history: the table when the run started
    run,                \* history: number of the current run of the job
    prev_log,           \* history: the progress lines of the previous run
    transients,         \* history: <<run, id>> of probes that failed transiently
    printed_id,         \* history: the last ID=... the operator saw before an interruption
    prev_recordings,    \* history: the rows the previous run had fetched
    \* ---- app.py read path, lines 303-335, and the cache file
    r_pc,               \* "load" | "batch" | "save_open" | "save_write" | "render" | "crashed" | "raised"
    file,               \* DURATION_CACHE_FILE: [exists, text]
    duration_cache,     \* the dict of the same name, in insertion order
    urls,               \* filtered_df["audio_url"].tolist()
    uncached_urls,
    r_i,                \* the batch loop's i
    w_todo,             \* what json.dump has still to write into the open file
    r_runs,             \* history: script runs started so far
    save_prev,          \* history: what the file held when the last save began
    save_new,           \* history: the mapping handed to the last save
    \* ---- app.py load_data_from_db and the sidebar filters, lines 228-270
    f_pc,               \* "query" | "org" | "student" | "activity" | "topic" | "shown" | "stopped"
    f_table,            \* the joined rows of conversation_recordings, any status
    df,
    filtered_df,
    orgs,               \* the options of each selectbox
    students,
    activities,
    topics,
    selected_org,
    selected_student,
    selected_activity,
    selected_topic,
    \* ---- app.py extract_transcript_from_segments, lines 117-164
    t_pc,               \* "call" | "returned"
    report_json,        \* the argument
    transcript,         \* the value returned
    \* ---- a second session running the read path in the same process
    o_pc,               \* "idle" | "batch" | "save_open" | "save_write" | "render" | "raised"
    o_cache,            \* its duration_cache
    o_uncached,         \* its uncached_urls
    o_i,                \* its batch loop's i
    o_todo,             \* what its json.dump has still to write
    \* ---- history of the read path
    saved,              \* the keys that completed saves have put into the file
    zeroed              \* the URLs a probe of the first session has given 0.0 for

parVars == <<p_pc, p_urls, future_to_idx, fstate, fresult, results, p_order, p_ret>>
envVars == <<ffprobe_installed, toolCalls>>
argVars == <<dry_run, resume_from, limit, include_dead_urls>>
jobVars == <<j_pc, argVars, db, txn, recordings, i, duration_ms, success, failed,
             skipped, exit_code, summary, log, db_start, run, prev_log, transients,
             printed_id, prev_recordings>>
otherVars == <<o_pc, o_cache, o_uncached, o_i, o_todo>>
sessionVars == <<r_pc, duration_cache, urls, uncached_urls, r_i, w_todo, r_runs,
                 save_prev, save_new>>
readVars == <<r_pc, file, duration_cache, urls, uncached_urls, r_i, w_todo, r_runs,
              save_prev, save_new, otherVars, saved, zeroed>>
filterVars == <<f_pc, f_table, df, filtered_df, orgs, students, activities, topics,
                selected_org, selected_student, selected_activity, selected_topic>>
transcriptVars == <<t_pc, report_json, transcript>>
notPar == <<jobVars, readVars, filterVars, transcriptVars>>
notJob == <<parVars, readVars, filterVars, transcriptVars>>
notRead == <<parVars, jobVars, filterVars, transcriptVars, otherVars>>
notOther == <<parVars, jobVars, filterVars, transcriptVars, sessionVars>>
notFilter == <<envVars, parVars, jobVars, readVars, transcriptVars>>
notTranscript == <<envVars, parVars, jobVars, readVars, filterVars>>
vars == <<envVars, parVars, jobVars, readVars, filterVars, transcriptVars>>

(***************************************************************************)
(* Bounds of the model.                                                    *)
(***************************************************************************)
MaxUrls == 3        \* longest urls list handed to get_durations_parallel
max_workers == 2    \* worker threads of the pool (20 in the code, scaled down)
NumRecords == 3     \* rows of conversation_recordings, ids 1..NumRecords
MaxResume == 3      \* largest --resume-from tried
MaxLimit == 2       \* largest --limit tried
batch_size == 2     \* URLs per batch of the read path (50 in the code, scaled down)
MaxSessions == 2    \* script runs of the read path
MaxRows == 3        \* joined rows the page's query runs over
MaxSegments == 2    \* longest segments list of a feedback report

(***************************************************************************)
(* Values.                                                                 *)
(***************************************************************************)
\* resolution of a float number of seconds: 1 second = SecScale units
SecScale == 10000

None == [kind |-> "none", val |-> 0]
Some(d) == [kind |-> "value", val |-> d]
Raised == [kind |-> "raised", val |-> 0]

NullUrl == <<>>
STORAGE_DOMAIN == "amazonaws.com"
UrlA == <<"s3", "amazonaws.com", "a.mp3">>
UrlB == <<"s3", "amazonaws.com", "b.mp3">>
UrlC == <<"s3", "amazonaws.com", "c.mp3">>
UrlDead == <<"foreverlearning.in", "d.mp3">>

\* `needle in url` / LIKE '%needle%'
Contains(url, needle) == \E k \in 1..Len(url) : url[k] = needle

\* What the remote store answers for a URL when ffprobe reaches it: the file's
\* duration (45.3 s, 12.3456 s, 7.0009 s), or nothing for the dead domain.
Remote(url) ==
    IF url = UrlA THEN Some(453000)
    ELSE IF url = UrlB THEN Some(123456)
    ELSE IF url = UrlC THEN Some(70009)
    ELSE None

\* How one ffprobe run can go: it answers, or it fails transiently
\* (subprocess.TimeoutExpired, unreachable host, non-zero exit).
ProbeEnvs == {"ok", "timeout"}

NoneKept(r) == IF r.kind = "value" THEN r.val ELSE -1

\* `duration or 0.0`
OrZero(r) == IF r.kind = "value" THEN r.val ELSE 0

(***************************************************************************)
(* app.py get_audio_duration                                               *)
(***************************************************************************)
AppGuardMissing(url) == url # NullUrl

\* line 66: the guard in front of subprocess.run
AppGuardPasses(url) == url # NullUrl /\ Contains(url, STORAGE_DOMAIN)

\* whether an ffprobe process is started for the call
AppStartsTool(url, installed) == AppGuardPasses(url) /\ installed

\* the value returned; a missing binary raises FileNotFoundError inside the
\* try, which `except Exception` turns into None
get_audio_duration(url, installed, env) ==
    IF ~AppGuardPasses(url) THEN None
    ELSE IF ~installed THEN None
    ELSE IF env = "timeout" THEN None
    ELSE Remote(url)

(***************************************************************************)
(* app.py get_durations_parallel                                           *)
(***************************************************************************)
FutureToIdxReversed(list) == [f \in 1..Len(list) |-> Len(list) + 1 - f]

\* lines 100-103: the dict comprehension over enumerate(urls)
FutureToIdx(list) == [f \in 1..Len(list) |-> f]

Futures == DOMAIN future_to_idx

\* line 96, line 98-103: allocate results, submit every task
ParSubmit ==
    /\ p_pc = "call"
    /\ results' = [k \in 1..Len(p_urls) |-> 0]
    /\ future_to_idx' = FutureToIdx(p_urls)
    /\ fstate' = [f \in 1..Len(p_urls) |-> "queued"]
    /\ fresult' = [f \in 1..Len(p_urls) |-> None]
    /\ p_pc' = "pool"
    /\ UNCHANGED <<p_urls, p_order, p_ret, envVars, notPar>>

\* a free worker thread takes the oldest queued task
ParStart(f) ==
    /\ p_pc = "pool"
    /\ fstate[f] = "queued"
    /\ \A g \in Futures : g < f => fstate[g] # "queued"
    /\ Cardinality({g \in Futures : fstate[g] = "running"}) < max_workers
    /\ fstate' = [fstate EXCEPT ![f] = "running"]
    /\ UNCHANGED <<p_pc, p_urls, future_to_idx, fresult, results, p_order, p_ret, envVars, notPar>>

\* the worker's call of get_audio_duration(url) ends; the st.cache_data
\* wrapper around it is library code and may itself raise
ParFinish(f) ==
    /\ p_pc = "pool"
    /\ fstate[f] = "running"
    /\ LET url == p_urls[f] IN
       \/ \E env \in ProbeEnvs :
            /\ fresult' = [fresult EXCEPT
                    ![f] = get_audio_duration(url, ffprobe_installed, env)]
            /\ toolCalls' = IF AppStartsTool(url, ffprobe_installed)
                            THEN toolCalls \cup {<<"app", url>>}
                            ELSE toolCalls
       \/ /\ fresult' = [fresult EXCEPT ![f] = Raised]
          /\ UNCHANGED toolCalls
    /\ fstate' = [fstate EXCEPT ![f] = "done"]
    /\ UNCHANGED <<p_pc, p_urls, future_to_idx, results, p_order, p_ret, ffprobe_installed, notPar>>

\* lines 106-112: as_completed yields a finished future
ParCollect(f) ==
    /\ p_pc = "pool"
    /\ fstate[f] = "done"
    /\ LET idx == future_to_idx[f] IN
       \/ /\ fresult[f].kind # "raised"
          /\ results' = [results EXCEPT ![idx] = OrZero(fresult[f])]
       \/ /\ fresult[f].kind = "raised"
          /\ results' = [results EXCEPT ![idx] = 0]
    /\ fstate' = [fstate EXCEPT ![f] = "collected"]
    /\ p_order' = Append(p_order, f)
    /\ UNCHANGED <<p_pc, p_urls, future_to_idx, fresult, p_ret, envVars, notPar>>

\* line 114, after the with-block has joined the pool
ParReturn ==
    /\ p_pc = "pool"
    /\ \A f \in Futures : fstate[f] = "collected"
    /\ p_ret' = results
    /\ p_pc' = "returned"
    /\ UNCHANGED <<p_urls, future_to_idx, fstate, fresult, results, p_order, envVars, notPar>>

(***************************************************************************)
(* fix_durations.py: the table, get_duration_ffprobe, fetch_recordings     *)
(***************************************************************************)
Ids == 1..NumRecords

\* The rows tried for each id: a READY row on the storage domain, a READY row
\* on the dead domain, a READY row without URL, a row that is not READY.
RowKinds == {"good", "dead", "nourl", "notready"}

GoodUrl(id) == IF id % 3 = 1 THEN UrlA ELSE IF id % 3 = 2 THEN UrlB ELSE UrlC

\* the duration at rest: 45 (seconds or milliseconds, nobody knows) or NULL
StoredDuration(id) == IF id % 2 = 1 THEN Some(45) ELSE None

RowOfKind(id, kind) ==
    [audioFileUrl |-> IF kind = "dead" THEN UrlDead
                      ELSE IF kind = "nourl" THEN NullUrl ELSE GoodUrl(id),
     status |-> IF kind = "notready" THEN "PENDING" ELSE "READY",
     duration |-> StoredDuration(id)]

Tables == {[id \in Ids |-> RowOfKind(id, k[id])] : k \in [Ids -> RowKinds]}

\* Python truthiness of an optional int: `if resume_from:`, `if limit:`
Truthy(opt) == opt.kind = "value" /\ opt.val # 0

SysExit == [kind |-> "exit", val |-> 1]

\* get_duration_ffprobe, lines 49-80: no guard on the URL; a missing binary is
\* FileNotFoundError -> sys.exit(1); timeout, bad exit code, bad JSON -> None
get_duration_ffprobe(url, installed, env) ==
    IF ~installed THEN SysExit
    ELSE IF env = "timeout" THEN None
    ELSE Remote(url)

\* whether an ffprobe process is started for the call
JobStartsTool(url, installed) == installed

ResumeFilterExclusive(id, from) == Truthy(from) => id > from.val

\* lines 101-102: AND id >= '{resume_from}'
ResumeFilter(id, from) == Truthy(from) => id >= from.val

\* lines 90-99: the WHERE clause
Selected(table, from, skip_dead_urls) ==
    {id \in DOMAIN table :
        /\ table[id].status = "READY"
        /\ table[id].audioFileUrl # NullUrl
        /\ skip_dead_urls => Contains(table[id].audioFileUrl, STORAGE_DOMAIN)
        /\ ResumeFilter(id, from)}

\* line 104: ORDER BY id ASC
RECURSIVE OrderByIdAsc(_)
OrderByIdAsc(S) ==
    IF S = {} THEN <<>>
    ELSE LET m == CHOOSE x \in S : \A y \in S : x <= y
         IN <<m>> \o OrderByIdAsc(S \ {m})

\* lines 106-107: LIMIT {limit}
ApplyLimit(seq, lim) ==
    IF Truthy(lim) /\ lim.val < Len(seq) THEN SubSeq(seq, 1, lim.val) ELSE seq

fetch_recordings(table, from, lim, skip_dead_urls) ==
    LET ids == ApplyLimit(OrderByIdAsc(Selected(table, from, skip_dead_urls)), lim)
    IN [k \in 1..Len(ids) |-> [id |-> ids[k],
                               audioFileUrl |-> table[ids[k]].audioFileUrl,
                               duration |-> table[ids[k]].duration]]

\* line 198: int(duration_sec * 1000)
ToMillisRounded(duration_sec) == (duration_sec * 1000 + SecScale \div 2) \div SecScale

ToMillis(duration_sec) == (duration_sec * 1000) \div SecScale

\* line 201: f"{old_duration}ms" if old_duration else "NULL"
OldDisplay(old) == IF Truthy(old) THEN old ELSE None

Line(record, new, outcome) ==
    [id |-> record.id, old |-> OldDisplay(record.duration), new |-> new,
     outcome |-> outcome]

(***************************************************************************)
(* fix_durations.py main                                                   *)
(***************************************************************************)
\* lines 155-161
JobConnect ==
    /\ j_pc = "connect"
    /\ \/ /\ j_pc' = "fetch"
          /\ UNCHANGED exit_code
       \/ /\ j_pc' = "aborted"
          /\ exit_code' = Some(1)
    /\ UNCHANGED <<argVars, db, txn, recordings, i, duration_ms, success, failed,
                   skipped, summary, log, db_start, run, prev_log, transients,
                   printed_id, prev_recordings,
                   envVars, notJob>>

\* lines 165-178
JobFetch ==
    /\ j_pc = "fetch"
    /\ LET rows == fetch_recordings(db, resume_from, limit, ~include_dead_urls) IN
       /\ recordings' = rows
       /\ IF Len(rows) = 0
          THEN /\ j_pc' = "done"
               /\ exit_code' = Some(0)
          ELSE /\ j_pc' = "loop"
               /\ UNCHANGED exit_code
    /\ i' = 1
    /\ success' = 0
    /\ failed' = 0
    /\ skipped' = 0
    /\ UNCHANGED <<argVars, db, txn, duration_ms, summary, log, db_start, run,
                   prev_log, transients, printed_id, prev_recordings, envVars, notJob>>

FailureNotCounted(n) == n

\* lines 194, 212: failed += 1
CountFailure(n) == n + 1

DryRunIgnored(flag) == FALSE

\* line 204: `if not args.dry_run` guards the write
IsDryRun(flag) == flag

\* lines 180-203 and, in a dry run, 214-217
JobProbe ==
    /\ j_pc = "loop"
    /\ i <= Len(recordings)
    /\ LET record == recordings[i]
           url == record.audioFileUrl
       IN \E env \in ProbeEnvs :
          LET duration_sec == get_duration_ffprobe(url, ffprobe_installed, env) IN
          /\ toolCalls' = IF JobStartsTool(url, ffprobe_installed)
                          THEN toolCalls \cup {<<"job", url>>}
                          ELSE toolCalls
          /\ transients' = IF ffprobe_installed /\ env = "timeout"
                                /\ Remote(url).kind = "value"
                           THEN transients \cup {<<run, record.id>>}
                           ELSE transients
          /\ \/ /\ duration_sec = SysExit
                /\ j_pc' = "aborted"
                /\ exit_code' = Some(1)
                /\ UNCHANGED <<i, duration_ms, success, failed, log>>
             \/ /\ duration_sec = None
                /\ failed' = CountFailure(failed)
                /\ log' = Append(log, Line(record, None, "FAILED"))
                /\ i' = i + 1
                /\ UNCHANGED <<j_pc, exit_code, duration_ms, success>>
             \/ /\ duration_sec.kind = "value"
                /\ IsDryRun(dry_run)
                /\ log' = Append(log, Line(record, Some(ToMillis(duration_sec.val)),
                                           "(dry run)"))
                /\ success' = success + 1
                /\ i' = i + 1
                /\ UNCHANGED <<j_pc, exit_code, duration_ms, failed>>
             \/ /\ duration_sec.kind = "value"
                /\ ~IsDryRun(dry_run)
                /\ duration_ms' = ToMillis(duration_sec.val)
                /\ j_pc' = "update"
                /\ UNCHANGED <<i, exit_code, success, failed, log>>
    /\ UNCHANGED <<argVars, db, txn, recordings, skipped, summary, db_start, run,
                   prev_log, printed_id, prev_recordings, ffprobe_installed, notJob>>

RollbackForgotten(pending) == pending

\* line 210: conn.rollback() drops what the transaction holds
Rollback(pending) == <<>>

\* lines 206, 209-213: update_duration(cursor, record_id, duration_ms)
JobUpdate ==
    /\ j_pc = "update"
    /\ LET record == recordings[i] IN
       \/ /\ txn' = Append(txn, [id |-> record.id, duration |-> duration_ms])
          /\ j_pc' = "commit"
          /\ UNCHANGED <<i, failed, log>>
       \/ /\ txn' = Rollback(txn)
          /\ failed' = CountFailure(failed)
          /\ log' = Append(log, Line(record, Some(duration_ms), "DB ERROR"))
          /\ i' = i + 1
          /\ j_pc' = "loop"
    /\ UNCHANGED <<argVars, db, recordings, duration_ms, success, skipped, exit_code,
                   summary, db_start, run, prev_log, transients, printed_id,
                   prev_recordings, envVars, notJob>>

UpdatesLost(table, updates) == table

\* the rows after the transaction's updates are applied
RECURSIVE ApplyUpdates(_, _)
ApplyUpdates(table, updates) ==
    IF updates = <<>> THEN table
    ELSE ApplyUpdates(
            [id \in DOMAIN table |->
                IF id = Head(updates).id
                THEN [table[id] EXCEPT !.duration = Some(Head(updates).duration)]
                ELSE table[id]],
            Tail(updates))

\* lines 207-213, 217: conn.commit()
JobCommit ==
    /\ j_pc = "commit"
    /\ LET record == recordings[i] IN
       \/ /\ db' = ApplyUpdates(db, txn)
          /\ txn' = <<>>
          /\ success' = success + 1
          /\ log' = Append(log, Line(record, Some(duration_ms), "UPDATED"))
          /\ UNCHANGED failed
       \/ /\ txn' = Rollback(txn)
          /\ failed' = CountFailure(failed)
          /\ log' = Append(log, Line(record, Some(duration_ms), "DB ERROR"))
          /\ UNCHANGED <<db, success>>
    /\ i' = i + 1
    /\ j_pc' = "loop"
    /\ UNCHANGED <<argVars, recordings, duration_ms, skipped, exit_code, summary,
                   db_start, run, prev_log, transients, printed_id, prev_recordings,
                   envVars, notJob>>

ExitNonZeroOnFailures(nfailed) == IF nfailed > 0 THEN Some(1) ELSE Some(0)

\* lines 236, 239-240: main() returns after the summary and the interpreter
\* exits 0, whatever the counters hold
ExitAfterSummary(nfailed) == Some(0)

\* lines 219-236
JobSummary ==
    /\ j_pc = "loop"
    /\ i > Len(recordings)
    /\ summary' = TRUE
    /\ j_pc' = "done"
    /\ exit_code' = ExitAfterSummary(failed)
    /\ UNCHANGED <<argVars, db, txn, recordings, i, duration_ms, success, failed,
                   skipped, log, db_start, run, prev_log, transients, printed_id,
                   prev_recordings, envVars, notJob>>

\* the operator starts the job a second time with the same flags
JobRerun ==
    /\ j_pc = "done"
    /\ run = 1
    /\ run' = run + 1
    /\ prev_log' = log
    /\ prev_recordings' = recordings
    /\ log' = <<>>
    /\ db_start' = db
    /\ j_pc' = "connect"
    /\ recordings' = <<>>
    /\ i' = 0
    /\ duration_ms' = 0
    /\ success' = 0
    /\ failed' = 0
    /\ skipped' = 0
    /\ exit_code' = None
    /\ summary' = FALSE
    /\ UNCHANGED <<argVars, db, txn, transients, printed_id, envVars, notJob>>

\* ended by a signal; no status of the program's own
Killed == [kind |-> "killed", val |-> 1]

\* The identifiers the operator can have seen last when the process dies:
\* line 187 prints ID=... without a newline before the probe starts, so the
\* last one seen is that of the record in flight, or, when that text was
\* still in the output buffer, that of the last finished line.
LastSeen ==
    (IF log # <<>> THEN {Some(log[Len(log)].id)} ELSE {})
    \cup (IF j_pc \in {"loop", "update", "commit"} /\ i <= Len(recordings)
          THEN {Some(recordings[i].id)} ELSE {})

\* The process is interrupted (Ctrl-C, kill, lost host) anywhere in main.
\* The server rolls back the open transaction; an interruption that falls
\* between conn.commit() (line 207) and the rest of the iteration leaves
\* the update committed.
JobInterrupt ==
    /\ j_pc \in {"connect", "fetch", "loop", "update", "commit"}
    /\ j_pc' = "interrupted"
    /\ exit_code' = Killed
    /\ \/ db' = db
       \/ /\ j_pc = "commit"
          /\ db' = ApplyUpdates(db, txn)
    /\ txn' = <<>>
    /\ printed_id' \in (IF LastSeen = {} THEN {None} ELSE LastSeen)
    /\ UNCHANGED <<argVars, recordings, i, duration_ms, success, failed, skipped,
                   summary, log, db_start, run, prev_log, transients, prev_recordings,
                   envVars, notJob>>

\* the operator restarts the job with --resume-from set to the last
\* identifier seen and the other flags as before
JobResume ==
    /\ j_pc = "interrupted"
    /\ run = 1
    /\ printed_id # None
    /\ resume_from' = printed_id
    /\ run' = run + 1
    /\ prev_log' = log
    /\ prev_recordings' = recordings
    /\ log' = <<>>
    /\ db_start' = db
    /\ j_pc' = "connect"
    /\ recordings' = <<>>
    /\ i' = 0
    /\ duration_ms' = 0
    /\ success' = 0
    /\ failed' = 0
    /\ skipped' = 0
    /\ exit_code' = None
    /\ summary' = FALSE
    /\ UNCHANGED <<dry_run, limit, include_dead_urls, db, txn, transients, printed_id,
                   envVars, notJob>>

OptInts(max) == {None} \cup {Some(n) : n \in 0..max}

JobIdle ==
    /\ j_pc = "connect"
    /\ txn = <<>>
    /\ recordings = <<>>
    /\ i = 0
    /\ duration_ms = 0
    /\ success = 0
    /\ failed = 0
    /\ skipped = 0
    /\ exit_code = None
    /\ summary = FALSE
    /\ log = <<>>
    /\ db_start = db
    /\ run = 1
    /\ prev_log = <<>>
    /\ transients = {}
    /\ printed_id = None
    /\ prev_recordings = <<>>

NoJob ==
    /\ dry_run = FALSE
    /\ resume_from = None
    /\ limit = None
    /\ include_dead_urls = FALSE
    /\ db = [id \in Ids |-> RowOfKind(id, "good")]
    /\ JobIdle

(***************************************************************************)
(* app.py: the duration cache file                                         *)
(***************************************************************************)
\* The file's text is a sequence of JSON tokens: "{", one token per
\* "url": seconds entry, "}"; a token "bytes" stands for bytes that are not
\* text in the encoding open(..., "r") reads with.
Tok(t, url, dur) == [t |-> t, url |-> url, dur |-> dur]

Entry(url, dur) == Tok("entry", url, dur)

\* json.dump writes a key that is None as the string "null"; a str key is
\* written as it is
JsonKey(url) == IF url = NullUrl THEN <<"null">> ELSE url

\* json.dump(cache, f), in the order json writes it
Serialize(cache) ==
    <<Tok("{", NullUrl, 0)>>
    \o [k \in 1..Len(cache) |-> Entry(JsonKey(cache[k].url), cache[k].dur)]
    \o <<Tok("}", NullUrl, 0)>>

\* whether f.read() can decode the file's bytes
Decodable(text) == \A k \in 1..Len(text) : text[k].t # "bytes"

\* whether json.load accepts the text
WellFormed(text) ==
    /\ Len(text) >= 2
    /\ text[1].t = "{"
    /\ text[Len(text)].t = "}"
    /\ \A k \in 2..(Len(text) - 1) : text[k].t = "entry"

\* `url in duration_cache`
DictHas(cache, url) == \E k \in 1..Len(cache) : cache[k].url = url

\* duration_cache[url] = dur
DictSet(cache, url, dur) ==
    IF DictHas(cache, url)
    THEN [k \in 1..Len(cache) |->
            IF cache[k].url = url THEN Entry(url, dur) ELSE cache[k]]
    ELSE Append(cache, Entry(url, dur))

\* the dict json.load builds from the entries of an object: a key written
\* twice is kept once, with its last value
RECURSIVE JsonObject(_, _)
JsonObject(entries, acc) ==
    IF entries = <<>> THEN acc
    ELSE JsonObject(Tail(entries), DictSet(acc, Head(entries).url, Head(entries).dur))

\* lines 42-45: what escapes `except (json.JSONDecodeError, IOError)`: the
\* UnicodeDecodeError of f.read() on bytes that are not text
LoadRaises(f) == f.exists /\ ~Decodable(f.text)

\* lines 38-46: the mapping returned when nothing is raised
load_duration_cache(f) ==
    IF f.exists
    THEN IF WellFormed(f.text)
         THEN JsonObject(SubSeq(f.text, 2, Len(f.text) - 1), <<>>)
         ELSE <<>>
    ELSE <<>>

\* lines 323-324: for url, dur in zip(batch, batch_durations)
RECURSIVE UpdateCache(_, _, _)
UpdateCache(cache, batch, batch_durations) ==
    IF batch = <<>> THEN cache
    ELSE UpdateCache(DictSet(cache, Head(batch), Head(batch_durations)),
                     Tail(batch), Tail(batch_durations))

\* what get_durations_parallel returns when the probe of batch[k] goes envs[k]
\* (a raising worker yields 0.0 like a failing one)
BatchDurations(batch, installed, envs) ==
    [k \in 1..Len(batch) |-> OrZero(get_audio_duration(batch[k], installed, envs[k]))]

(***************************************************************************)
(* app.py: the read path, lines 303-335                                    *)
(***************************************************************************)
\* the URLs of the rows the filters can leave
AllUrls == <<UrlA, UrlB, UrlDead, NullUrl>>

RECURSIVE Pick(_, _)
Pick(seq, keep) ==
    IF seq = <<>> THEN <<>>
    ELSE (IF keep[1] THEN <<Head(seq)>> ELSE <<>>)
         \o Pick(Tail(seq), [k \in 1..(Len(seq) - 1) |-> keep[k + 1]])

FilteredLists == {Pick(AllUrls, keep) : keep \in [1..Len(AllUrls) -> BOOLEAN]}

RECURSIVE Uncached(_, _)
\* line 308
Uncached(list, cache) ==
    IF list = <<>> THEN <<>>
    ELSE (IF DictHas(cache, Head(list)) THEN <<>> ELSE <<Head(list)>>)
         \o Uncached(Tail(list), cache)

\* lines 304-311; an exception of load_duration_cache ends the script run
ReadLoad ==
    /\ r_pc = "load"
    /\ IF LoadRaises(file)
       THEN /\ r_pc' = "raised"
            /\ UNCHANGED <<duration_cache, urls, uncached_urls>>
       ELSE \E list \in FilteredLists :
            LET cache == load_duration_cache(file)
                todo == Uncached(list, cache)
            IN /\ duration_cache' = cache
               /\ urls' = list
               /\ uncached_urls' = todo
               /\ r_pc' = IF todo # <<>> THEN "batch" ELSE "render"
    /\ r_i' = 0
    /\ UNCHANGED <<file, w_todo, r_runs, save_prev, save_new, envVars, saved, zeroed, notRead>>

\* line 318 / 334: the loop goes on while i < len(uncached_urls); the save
\* follows the loop
AfterBatch(more) == IF more THEN "batch" ELSE "save_open"

\* lines 318-331: one iteration of the batch loop
ReadBatch ==
    /\ r_pc = "batch"
    /\ LET hi == IF r_i + batch_size < Len(uncached_urls)
                 THEN r_i + batch_size ELSE Len(uncached_urls)
           batch == SubSeq(uncached_urls, r_i + 1, hi)
       IN \E envs \in [1..Len(batch) -> ProbeEnvs] :
           LET batch_durations == BatchDurations(batch, ffprobe_installed, envs) IN
           /\ duration_cache' = UpdateCache(duration_cache, batch, batch_durations)
           /\ toolCalls' = toolCalls \cup
                  {<<"app", batch[k]>> : k \in {n \in 1..Len(batch) :
                        AppStartsTool(batch[n], ffprobe_installed)}}
           /\ zeroed' = zeroed \cup
                  {batch[k] : k \in {n \in 1..Len(batch) : batch_durations[n] = 0}}
    /\ r_i' = r_i + batch_size
    /\ r_pc' = AfterBatch(r_i + batch_size < Len(uncached_urls))
    /\ UNCHANGED <<file, urls, uncached_urls, w_todo, r_runs, save_prev, save_new,
                   ffprobe_installed, saved, notRead>>

\* lines 51-52: mkdir, open(DURATION_CACHE_FILE, "w") truncates the file
ReadSaveOpen ==
    /\ r_pc = "save_open"
    /\ save_prev' = load_duration_cache(file)
    /\ save_new' = duration_cache
    /\ file' = [exists |-> TRUE, text |-> <<>>]
    /\ w_todo' = Serialize(duration_cache)
    /\ r_pc' = "save_write"
    /\ UNCHANGED <<duration_cache, urls, uncached_urls, r_i, r_runs, envVars, saved,
                   zeroed, notRead>>

\* A write of one token through a file object whose position is pos tokens
\* from the start: it replaces what is there, or extends the file; when
\* another open(..., "w") has cut the file short of pos, the gap reads as
\* NUL characters.
WriteAt(text, pos, tok) ==
    LET padded == text \o [k \in 1..(pos - Len(text)) |-> Tok("nul", NullUrl, 0)]
    IN [k \in 1..(IF pos + 1 > Len(padded) THEN pos + 1 ELSE Len(padded)) |->
            IF k = pos + 1 THEN tok ELSE padded[k]]

\* line 53: json.dump writes the text piece by piece
ReadSaveWrite ==
    /\ r_pc = "save_write"
    /\ w_todo # <<>>
    /\ file' = [file EXCEPT !.text =
                    WriteAt(@, Len(Serialize(duration_cache)) - Len(w_todo), Head(w_todo))]
    /\ w_todo' = Tail(w_todo)
    /\ UNCHANGED <<r_pc, duration_cache, urls, uncached_urls, r_i, r_runs, save_prev,
                   save_new, envVars, saved, zeroed, notRead>>

\* the keys json.dump has written for a mapping
KeysWritten(cache) == {JsonKey(cache[k].url) : k \in 1..Len(cache)}

\* the with-block closes the file; line 335 and on render from the cache
ReadSaveClose ==
    /\ r_pc = "save_write"
    /\ w_todo = <<>>
    /\ r_pc' = "render"
    /\ saved' = saved \cup KeysWritten(duration_cache)
    /\ UNCHANGED <<file, duration_cache, urls, uncached_urls, r_i, w_todo, r_runs,
                   save_prev, save_new, envVars, zeroed, notRead>>

\* the process is interrupted: what is in memory is lost, the file stays as
\* it is
ReadInterrupt ==
    /\ r_pc \in {"batch", "save_open", "save_write"}
    /\ r_pc' = "crashed"
    /\ duration_cache' = <<>>
    /\ urls' = <<>>
    /\ uncached_urls' = <<>>
    /\ r_i' = 0
    /\ w_todo' = <<>>
    /\ UNCHANGED <<file, r_runs, save_prev, save_new, envVars, saved, zeroed, notRead>>

\* the script runs again (a widget changed, or the app was restarted)
ReadRerun ==
    /\ r_pc \in {"render", "crashed", "raised"}
    /\ r_runs < MaxSessions
    /\ r_runs' = r_runs + 1
    /\ r_pc' = "load"
    /\ UNCHANGED <<file, duration_cache, urls, uncached_urls, r_i, w_todo, save_prev,
                   save_new, envVars, saved, zeroed, notRead>>

(***************************************************************************)
(* app.py: the same lines 303-335 run by a second session.  Streamlit runs *)
(* each session's script in a thread of its own; the threads share the     *)
(* cache file and nothing else, and the script takes no lock.              *)
(***************************************************************************)
\* lines 304-311
OtherLoad ==
    /\ o_pc = "idle"
    /\ IF LoadRaises(file)
       THEN /\ o_pc' = "raised"
            /\ UNCHANGED <<o_cache, o_uncached>>
       ELSE \E list \in FilteredLists :
            LET cache == load_duration_cache(file)
                todo == Uncached(list, cache)
            IN /\ o_cache' = cache
               /\ o_uncached' = todo
               /\ o_pc' = IF todo # <<>> THEN "batch" ELSE "render"
    /\ UNCHANGED <<o_i, o_todo, file, envVars, saved, zeroed, notOther>>

\* lines 318-331
OtherBatch ==
    /\ o_pc = "batch"
    /\ LET hi == IF o_i + batch_size < Len(o_uncached)
                 THEN o_i + batch_size ELSE Len(o_uncached)
           batch == SubSeq(o_uncached, o_i + 1, hi)
       IN \E envs \in [1..Len(batch) -> ProbeEnvs] :
           /\ o_cache' = UpdateCache(o_cache, batch,
                                BatchDurations(batch, ffprobe_installed, envs))
           /\ toolCalls' = toolCalls \cup
                  {<<"app", batch[k]>> : k \in {n \in 1..Len(batch) :
                        AppStartsTool(batch[n], ffprobe_installed)}}
    /\ o_i' = o_i + batch_size
    /\ o_pc' = AfterBatch(o_i + batch_size < Len(o_uncached))
    /\ UNCHANGED <<o_uncached, o_todo, file, ffprobe_installed, saved, zeroed, notOther>>

\* lines 51-52
OtherSaveOpen ==
    /\ o_pc = "save_open"
    /\ file' = [exists |-> TRUE, text |-> <<>>]
    /\ o_todo' = Serialize(o_cache)
    /\ o_pc' = "save_write"
    /\ UNCHANGED <<o_cache, o_uncached, o_i, envVars, saved, zeroed, notOther>>

\* line 53
OtherSaveWrite ==
    /\ o_pc = "save_write"
    /\ o_todo # <<>>
    /\ file' = [file EXCEPT !.text =
                    WriteAt(@, Len(Serialize(o_cache)) - Len(o_todo), Head(o_todo))]
    /\ o_todo' = Tail(o_todo)
    /\ UNCHANGED <<o_pc, o_cache, o_uncached, o_i, envVars, saved, zeroed, notOther>>

\* the with-block closes the file
OtherSaveClose ==
    /\ o_pc = "save_write"
    /\ o_todo = <<>>
    /\ o_pc' = "render"
    /\ saved' = saved \cup KeysWritten(o_cache)
    /\ UNCHANGED <<o_cache, o_uncached, o_i, o_todo, file, envVars, zeroed, notOther>>

OtherIdle ==
    /\ o_pc = "idle"
    /\ o_cache = <<>>
    /\ o_uncached = <<>>
    /\ o_i = 0
    /\ o_todo = <<>>

ReadIdle ==
    /\ r_pc = "load"
    /\ duration_cache = <<>>
    /\ urls = <<>>
    /\ uncached_urls = <<>>
    /\ r_i = 0
    /\ w_todo = <<>>
    /\ r_runs = 1
    /\ save_prev = <<>>
    /\ save_new = <<>>
    /\ saved = {}
    /\ zeroed = {}
    /\ OtherIdle

NoRead ==
    /\ file = [exists |-> FALSE, text |-> <<>>]
    /\ ReadIdle

(***************************************************************************)
(* app.py: load_data_from_db and the cascading sidebar filters             *)
(***************************************************************************)
Joined(org, student, activity, topic, status) ==
    [org_name |-> org, student_name |-> student, activity_name |-> activity,
     topic |-> topic, status |-> status]

\* SQL NULL in topics.name (no topic attached to the activity)
NullTopic == "NULL"

\* the joined rows tried: two organizations, students with READY recordings
\* in one, in both, or with only a recording that is not READY in one of them
RowUniverse ==
    { Joined("Acme", "Ana", "Quiz", "Verbs", "READY"),
      Joined("Acme", "Ana", "Talk", NullTopic, "READY"),
      Joined("Acme", "Ben", "Quiz", NullTopic, "READY"),
      Joined("Acme", "Cat", "Quiz", "Verbs", "PENDING"),
      Joined("Beta", "Cat", "Talk", "Verbs", "READY"),
      Joined("Beta", "Ben", "Talk", "Nouns", "READY"),
      Joined("Beta", "Ana", "Quiz", "Verbs", "PENDING"),
      Joined("Beta", "Dan", "Drill", NullTopic, "READY") }

\* lines 170-178: the columns the page uses; COALESCE(t.name, 'No Topic')
Selection(row) ==
    [org_name |-> row.org_name, student_name |-> row.student_name,
     activity_name |-> row.activity_name,
     topic_name |-> IF row.topic = NullTopic THEN "No Topic" ELSE row.topic,
     status |-> row.status]

\* lines 169-189: WHERE cr.status = 'READY'
Query(table) ==
    LET ready == SelectSeq(table, LAMBDA row : row.status = "READY")
    IN [k \in 1..Len(ready) |-> Selection(ready[k])]

\* frame[column].unique().tolist(); the sorted() around it orders the
\* options and is left out
Unique(frame, column) == {frame[k][column] : k \in 1..Len(frame)}

\* frame[frame[column] == value]
Where(frame, column, value) == SelectSeq(frame, LAMBDA row : row[column] = value)

\* lines 246-248, 254-255, 261-262, 268-269: `if selected != "All"`
Narrow(frame, column, selected) ==
    IF selected # "All" THEN Where(frame, column, selected) ELSE frame

StudentOptionsOfAllRows(all_rows, left_rows) ==
    {"All"} \cup Unique(all_rows, "student_name")

\* line 242
OrgOptions(all_rows) == {"All"} \cup Unique(all_rows, "org_name")

\* line 251: from filtered_df, not df
StudentOptions(all_rows, left_rows) == {"All"} \cup Unique(left_rows, "student_name")

\* line 258
ActivityOptions(left_rows) == {"All"} \cup Unique(left_rows, "activity_name")

\* line 265
TopicOptions(left_rows) == {"All"} \cup Unique(left_rows, "topic_name")

\* lines 228-236
FilterLoad ==
    /\ f_pc = "query"
    /\ df' = Query(f_table)
    /\ f_pc' = IF Query(f_table) = <<>> THEN "stopped" ELSE "org"
    /\ UNCHANGED <<f_table, filtered_df, orgs, students, activities, topics,
                   selected_org, selected_student, selected_activity, selected_topic,
                   notFilter>>

\* lines 242-248: the selectbox returns the option the user has chosen
FilterOrg ==
    /\ f_pc = "org"
    /\ orgs' = OrgOptions(df)
    /\ \E choice \in OrgOptions(df) :
        /\ selected_org' = choice
        /\ filtered_df' = Narrow(df, "org_name", choice)
    /\ f_pc' = "student"
    /\ UNCHANGED <<f_table, df, students, activities, topics, selected_student,
                   selected_activity, selected_topic, notFilter>>

\* lines 251-255
FilterStudent ==
    /\ f_pc = "student"
    /\ students' = StudentOptions(df, filtered_df)
    /\ \E choice \in StudentOptions(df, filtered_df) :
        /\ selected_student' = choice
        /\ filtered_df' = Narrow(filtered_df, "student_name", choice)
    /\ f_pc' = "activity"
    /\ UNCHANGED <<f_table, df, orgs, activities, topics, selected_org,
                   selected_activity, selected_topic, notFilter>>

\* lines 258-262
FilterActivity ==
    /\ f_pc = "activity"
    /\ activities' = ActivityOptions(filtered_df)
    /\ \E choice \in ActivityOptions(filtered_df) :
        /\ selected_activity' = choice
        /\ filtered_df' = Narrow(filtered_df, "activity_name", choice)
    /\ f_pc' = "topic"
    /\ UNCHANGED <<f_table, df, orgs, students, topics, selected_org,
                   selected_student, selected_topic, notFilter>>

\* lines 265-269
FilterTopic ==
    /\ f_pc = "topic"
    /\ topics' = TopicOptions(filtered_df)
    /\ \E choice \in TopicOptions(filtered_df) :
        /\ selected_topic' = choice
        /\ filtered_df' = Narrow(filtered_df, "topic_name", choice)
    /\ f_pc' = "shown"
    /\ UNCHANGED <<f_table, df, orgs, students, activities, selected_org,
                   selected_student, selected_activity, notFilter>>

FilterIdle ==
    /\ f_pc = "query"
    /\ df = <<>>
    /\ filtered_df = <<>>
    /\ orgs = {}
    /\ students = {}
    /\ activities = {}
    /\ topics = {}
    /\ selected_org = "All"
    /\ selected_student = "All"
    /\ selected_activity = "All"
    /\ selected_topic = "All"

NoFilter ==
    /\ f_table = <<>>
    /\ FilterIdle

(***************************************************************************)
(* app.py: extract_transcript_from_segments                                *)
(***************************************************************************)
\* A string is a sequence of characters.  A key that the JSON object lacks
\* is Missing and a JSON null is Null: one-element sequences of a token
\* that is no character.
Missing == <<"(missing)">>
Null == <<"(null)">>

Segment(speaker, content) == [speaker |-> speaker, content |-> content]

Mapping(speaker_id, speaker_name) ==
    [speaker_id |-> speaker_id, speaker_name |-> speaker_name]

\* a report with a transcript object; NoReport is the row without feedback
Report(segments, speaker_map) ==
    [kind |-> "report", segments |-> segments, speaker_map |-> speaker_map]

NoReport == [kind |-> "none", segments |-> <<>>, speaker_map |-> <<>>]

Contents ==
    { <<>>, <<" ">>, <<" ", "h", "i", " ">>, <<"h", "i">>, <<"a", " ", "b">>, Null }

Speakers == {<<"S", "0">>, <<"S", "1">>}

SpeakerMaps ==
    { <<>>,
      <<Mapping(<<"S", "0">>, <<"A", "n", "a">>)>>,
      <<Mapping(<<"S", "0">>, <<"A", "n", "a">>), Mapping(<<"S", "1">>, <<"B", "o">>)>>,
      <<Mapping(<<"S", "0">>, Missing)>>,
      <<Mapping(<<"S", "0">>, <<"A", "n", "a">>), Mapping(<<"S", "0">>, <<"Z", "e", "d">>)>> }

Reports ==
    {NoReport} \cup
    {Report(segs, map) :
        segs \in UNION {[1..n -> {Segment(sp, c) : sp \in Speakers, c \in Contents}] :
                            n \in 0..MaxSegments},
        map \in SpeakerMaps}

Unstripped(str) == str

RECURSIVE LStrip(_)
LStrip(str) ==
    IF str # <<>> /\ Head(str) = " " THEN LStrip(Tail(str)) ELSE str

RECURSIVE RStrip(_)
RStrip(str) ==
    IF str # <<>> /\ str[Len(str)] = " " THEN RStrip(SubSeq(str, 1, Len(str) - 1)) ELSE str

\* line 156: str.strip()
Strip(str) == RStrip(LStrip(str))

\* lines 146-150: speaker_names after the loop over speaker_map; a later
\* entry for the same id replaces an earlier one
RECURSIVE SpeakerNames(_, _)
SpeakerNames(speaker_map, acc) ==
    IF speaker_map = <<>> THEN acc
    ELSE LET m == Head(speaker_map)
             name == IF m.speaker_name = Missing
                     THEN <<"U", "n", "k", "n", "o", "w", "n">> ELSE m.speaker_name
         IN SpeakerNames(Tail(speaker_map),
                [id \in DOMAIN acc \cup {m.speaker_id} |->
                    IF id = m.speaker_id THEN name ELSE acc[id]])

\* line 158: speaker_names.get(speaker_id, speaker_id)
NameOf(speaker_names, speaker_id) ==
    IF speaker_id \in DOMAIN speaker_names THEN speaker_names[speaker_id] ELSE speaker_id

\* line 159: f"[{speaker_name}]: {content}"
FormatLine(speaker_name, content) ==
    <<"[">> \o speaker_name \o <<"]", ":", " ">> \o content

\* lines 154-159: the loop over segments
RECURSIVE TranscriptLines(_, _)
TranscriptLines(segments, speaker_names) ==
    IF segments = <<>> THEN <<>>
    ELSE LET content == Strip(Head(segments).content)
         IN (IF content # <<>>
             THEN <<FormatLine(NameOf(speaker_names, Head(segments).speaker), content)>>
             ELSE <<>>)
            \o TranscriptLines(Tail(segments), speaker_names)

\* line 161: "\n".join(transcript_lines)
RECURSIVE Join(_)
Join(lines) ==
    IF lines = <<>> THEN <<>>
    ELSE IF Len(lines) = 1 THEN lines[1]
    ELSE lines[1] \o <<"\n">> \o Join(Tail(lines))

\* line 156 on a content that is null: None has no strip(), the
\* AttributeError is caught at line 163
StripRaises(segments) == \E k \in 1..Len(segments) : segments[k].content = Null

\* lines 135-164
extract_transcript_from_segments(report) ==
    IF report.kind = "none" THEN None
    ELSE IF report.segments = <<>> THEN None
    ELSE IF StripRaises(report.segments) THEN None
    ELSE LET transcript_lines ==
                TranscriptLines(report.segments, SpeakerNames(report.speaker_map, <<>>))
         IN IF transcript_lines # <<>> THEN Some(Join(transcript_lines)) ELSE None

\* line 205: the function applied to a row's feedback_report
TranscriptExtract ==
    /\ t_pc = "call"
    /\ transcript' = extract_transcript_from_segments(report_json)
    /\ t_pc' = "returned"
    /\ UNCHANGED <<report_json, notTranscript>>

NoTranscript ==
    /\ t_pc = "call"
    /\ report_json = NoReport
    /\ transcript = None

UrlUniverse == {UrlA, UrlB, UrlDead}

UrlLists == UNION {[1..n -> UrlUniverse] : n \in 0..MaxUrls}

ParIdle ==
    /\ p_pc = "call"
    /\ future_to_idx = <<>>
    /\ fstate = <<>>
    /\ fresult = <<>>
    /\ results = <<>>
    /\ p_order = <<>>
    /\ p_ret = <<>>

ParInit ==
    /\ ffprobe_installed \in BOOLEAN
    /\ toolCalls = {}
    /\ p_urls \in UrlLists
    /\ ParIdle
    /\ NoJob
    /\ NoRead
    /\ NoFilter
    /\ NoTranscript

ParNext ==
    \/ ParSubmit
    \/ \E f \in Futures : ParStart(f)
    \/ \E f \in Futures : ParFinish(f)
    \/ \E f \in Futures : ParCollect(f)
    \/ ParReturn

SpecPar == ParInit /\ [][ParNext]_vars

\* the probe that ran for index k: the future submitted for urls[k]
ProbeOf(k) == fresult[k]

(***************************************************************************)
(* C1: get_durations_parallel returns a list as long as urls whose element *)
(* i is the outcome of the probe of urls[i] (its duration, or 0.0 when     *)
(* that probe gave no value), whatever the order in which workers finish.  *)
(***************************************************************************)
C1_IndexAligned ==
    p_pc = "returned" =>
        /\ Len(p_ret) = Len(p_urls)
        /\ \A k \in 1..Len(p_urls) : p_ret[k] = OrZero(ProbeOf(k))

\* a later-submitted task finished and was collected before an earlier one,
\* and the two probes differ
C1_Witness ==
    /\ p_pc = "returned"
    /\ Len(p_urls) >= 2
    /\ p_order[1] > p_order[2]
    /\ p_ret[1] # p_ret[2]
    /\ p_ret[p_order[1]] # 0

(***************************************************************************)
(* The reconciliation job, one run with any flags.                         *)
(***************************************************************************)
NoPar ==
    /\ p_urls = <<>>
    /\ ParIdle

JobInit ==
    /\ ffprobe_installed \in BOOLEAN
    /\ toolCalls = {}
    /\ dry_run \in BOOLEAN
    /\ resume_from \in OptInts(MaxResume)
    /\ limit \in OptInts(MaxLimit)
    /\ include_dead_urls \in BOOLEAN
    /\ db \in Tables
    /\ JobIdle
    /\ NoPar
    /\ NoRead
    /\ NoFilter
    /\ NoTranscript

JobNext ==
    \/ JobConnect
    \/ JobFetch
    \/ JobProbe
    \/ JobUpdate
    \/ JobCommit
    \/ JobSummary

SpecJob == JobInit /\ [][JobNext]_vars

\* a run over any table, without --resume-from and --limit
FairInit ==
    /\ ffprobe_installed \in BOOLEAN
    /\ toolCalls = {}
    /\ dry_run \in BOOLEAN
    /\ resume_from = None
    /\ limit = None
    /\ include_dead_urls \in BOOLEAN
    /\ db \in Tables
    /\ JobIdle
    /\ NoPar
    /\ NoRead
    /\ NoFilter
    /\ NoTranscript

\* main is one sequential process: while it has a step to take it takes it
\* (connect, query and each probe end: the probe by --timeout at the latest)
SpecJobFair == FairInit /\ [][JobNext]_vars /\ WF_vars(JobNext)

(***************************************************************************)
(* The read path: script runs against the cache file, with interruptions.  *)
(***************************************************************************)
\* the file before the first run: absent, an empty mapping, a mapping with a
\* correct entry, a text json.load rejects, or bytes that are not text
InitFiles ==
    { [exists |-> FALSE, text |-> <<>>],
      [exists |-> TRUE, text |-> Serialize(<<>>)],
      [exists |-> TRUE, text |-> Serialize(<<Entry(UrlA, Remote(UrlA).val)>>)],
      [exists |-> TRUE, text |-> <<Tok("{", NullUrl, 0)>>],
      [exists |-> TRUE, text |-> <<Tok("bytes", NullUrl, 0)>>] }

ReadInit ==
    /\ ffprobe_installed \in BOOLEAN
    /\ toolCalls = {}
    /\ file \in InitFiles
    /\ ReadIdle
    /\ NoPar
    /\ NoJob
    /\ NoFilter
    /\ NoTranscript

ReadNext ==
    \/ ReadLoad
    \/ ReadBatch
    \/ ReadSaveOpen
    \/ ReadSaveWrite
    \/ ReadSaveClose
    \/ ReadInterrupt
    \/ ReadRerun

SpecRead == ReadInit /\ [][ReadNext]_vars

(***************************************************************************)
(* Two sessions of the page run the read path at the same time, once each. *)
(***************************************************************************)
SharedInit == ReadInit

SharedNext ==
    \/ ReadLoad
    \/ ReadBatch
    \/ ReadSaveOpen
    \/ ReadSaveWrite
    \/ ReadSaveClose
    \/ OtherLoad
    \/ OtherBatch
    \/ OtherSaveOpen
    \/ OtherSaveWrite
    \/ OtherSaveClose

SpecShared == SharedInit /\ [][SharedNext]_vars

(***************************************************************************)
(* Two consecutive runs of the job with the same flags.                    *)
(***************************************************************************)
TwiceInit == JobInit

TwiceNext ==
    \/ JobNext
    \/ JobRerun

SpecTwice == TwiceInit /\ [][TwiceNext]_vars

(***************************************************************************)
(* A run of the job that can be interrupted anywhere and is then restarted *)
(* once from the last identifier seen.                                     *)
(***************************************************************************)
ResumeInit == JobInit

ResumeNext ==
    \/ JobNext
    \/ JobInterrupt
    \/ JobResume

SpecResume == ResumeInit /\ [][ResumeNext]_vars

(***************************************************************************)
(* Both probers side by side: a run of the job without --resume-from and   *)
(* --limit, and one call of the read path's prober through the pool.       *)
(***************************************************************************)
ProbeInit ==
    /\ ffprobe_installed \in BOOLEAN
    /\ toolCalls = {}
    /\ dry_run \in BOOLEAN
    /\ resume_from = None
    /\ limit = None
    /\ include_dead_urls \in BOOLEAN
    /\ db \in Tables
    /\ JobIdle
    /\ p_urls \in {<<u>> : u \in UrlUniverse \cup {NullUrl}}
    /\ ParIdle
    /\ NoRead
    /\ NoFilter
    /\ NoTranscript

ProbeNext ==
    \/ JobNext
    \/ ParNext

SpecProbe == ProbeInit /\ [][ProbeNext]_vars

(***************************************************************************)
(* One run of the page's script down to the topic filter.                  *)
(***************************************************************************)
FilterInit ==
    /\ ffprobe_installed = TRUE
    /\ toolCalls = {}
    /\ f_table \in UNION {[1..n -> RowUniverse] : n \in 0..MaxRows}
    /\ FilterIdle
    /\ NoPar
    /\ NoJob
    /\ NoRead
    /\ NoTranscript

FilterNext ==
    \/ FilterLoad
    \/ FilterOrg
    \/ FilterStudent
    \/ FilterActivity
    \/ FilterTopic

SpecFilter == FilterInit /\ [][FilterNext]_vars

(***************************************************************************)
(* One call of extract_transcript_from_segments on any report.             *)
(***************************************************************************)
TranscriptInit ==
    /\ ffprobe_installed = TRUE
    /\ toolCalls = {}
    /\ t_pc = "call"
    /\ report_json \in Reports
    /\ transcript = None
    /\ NoPar
    /\ NoJob
    /\ NoRead
    /\ NoFilter

TranscriptNext == TranscriptExtract

SpecTranscript == TranscriptInit /\ [][TranscriptNext]_vars

(***************************************************************************)
(* Claims about the reconciliation job                                     *)
(***************************************************************************)
\* the identifiers of the records handled so far, in the order handled
LogIds == [k \in 1..Len(log) |-> log[k].id]

IsPrefix(a, b) == Len(a) <= Len(b) /\ a = SubSeq(b, 1, Len(a))

\* the identifiers a run without --resume-from, with limit lim, would handle
FullRunIds(lim) ==
    LET rows == fetch_recordings(db_start, None, lim, ~include_dead_urls)
    IN [k \in 1..Len(rows) |-> rows[k].id]

AtOrAfter(seq, x) == SelectSeq(seq, LAMBDA id : id >= x)

FirstN(seq, lim) ==
    IF lim.kind = "value" /\ lim.val >= 1 /\ lim.val < Len(seq)
    THEN SubSeq(seq, 1, lim.val) ELSE seq

\* C2 as stated: a run with resume_from = X handles exactly the records with
\* identifier >= X that the full run with the same other flags would have
\* handled, in the same order.
C2_ResumeSubsetOfFullRun ==
    (j_pc = "done" /\ resume_from.kind = "value") =>
        LogIds = AtOrAfter(FullRunIds(limit), resume_from.val)

\* C2 amended: a run with resume_from = X handles, in ascending order, exactly
\* the records with identifier >= X that a full run without limit would have
\* handled, cut to the first L of them when a limit L > 0 is given; a run that
\* has not finished has handled a prefix of them.
C2_ResumeCorrect ==
    resume_from.kind = "value" =>
        LET expect == FirstN(AtOrAfter(FullRunIds(None), resume_from.val), limit)
        IN /\ IsPrefix(LogIds, expect)
           /\ j_pc = "done" => LogIds = expect

\* a finished resumed run that left out an earlier selected record and handled two
C2_Witness ==
    /\ j_pc = "done"
    /\ summary
    /\ resume_from = Some(2)
    /\ 1 \in Selected(db_start, None, ~include_dead_urls)
    /\ LogIds = <<2, 3>>

\* C6: in a live run, a record whose probe returned d seconds and whose
\* commit succeeded holds the truncated integer d*1000 milliseconds afterwards,
\* whatever was stored before (stored 45, probed 45.3 s: 45300).
C6_StoredMillis ==
    ~dry_run =>
        \A k \in 1..Len(log) :
            log[k].outcome = "UPDATED" =>
                LET id == log[k].id
                    d == Remote(db[id].audioFileUrl).val
                    ms == db[id].duration
                IN /\ ms.kind = "value"
                   /\ ms.val * SecScale <= d * 1000
                   /\ d * 1000 < (ms.val + 1) * SecScale

\* record 1, stored 45, probed as 45.3 s and committed, holds 45300; record 2,
\* probed as 12.3456 s, holds 12345
C6_Witness ==
    /\ ~dry_run
    /\ j_pc = "done"
    /\ \E k \in 1..Len(log) :
        /\ log[k].outcome = "UPDATED"
        /\ log[k].id = 1
        /\ log[k].old = Some(45)
    /\ db_start[1].duration = Some(45)
    /\ db[1].duration = Some(45300)
    /\ db[2].duration = Some(12345)

\* C7: a dry run leaves every stored duration as it was, whatever the probes
\* return, and leaves no update pending in the transaction.
C7_DryRunFrame ==
    dry_run => (db = db_start /\ txn = <<>>)

\* a finished dry run that proposed a change and reported a failure
C7_Witness ==
    /\ dry_run
    /\ j_pc = "done"
    /\ \E k \in 1..Len(log) :
        log[k].outcome = "(dry run)" /\ log[k].new # log[k].old
    /\ \E k \in 1..Len(log) : log[k].outcome = "FAILED"

\* the records whose probe failed transiently in run n
TransientIn(n) == {id \in Ids : <<n, id>> \in transients}

C10_JobAborts ==
    ~ffprobe_installed =>
        /\ failed = 0
        /\ log = <<>>
        /\ j_pc \in {"connect", "fetch", "loop", "aborted", "done"}
        /\ (j_pc = "done" => recordings = <<>>)

(***************************************************************************)
(* Claims about the probers                                                *)
(***************************************************************************)
OffDomain(url) == ~Contains(url, STORAGE_DOMAIN)

\* C9 as stated: for a URL off the storage domain every prober returns None
\* and ffprobe is never started, the job's prober under --include-dead-urls
\* included.
C9_NoProbeOffDomain ==
    /\ \A c \in toolCalls : ~OffDomain(c[2])
    /\ \A f \in Futures :
        (fstate[f] \in {"done", "collected"} /\ OffDomain(p_urls[f]))
            => fresult[f] \in {None, Raised}

\* C9 amended: for a URL off the storage domain the read path's prober
\* get_audio_duration never yields a duration (it returns None) and never
\* starts ffprobe; the job's prober has no such guard: without
\* --include-dead-urls the selection keeps such URLs away from it, and with
\* --include-dead-urls ffprobe is started for every selected record.
C9_GuardInReadPathOnly ==
    /\ \A c \in toolCalls : (c[1] = "app" => ~OffDomain(c[2]))
    /\ \A f \in Futures :
        (fstate[f] \in {"done", "collected"} /\ OffDomain(p_urls[f]))
            => fresult[f] \in {None, Raised}
    /\ \A c \in toolCalls : (c[1] = "job" /\ OffDomain(c[2])) => include_dead_urls
    /\ \A k \in 1..Len(log) : <<"job", db[log[k].id].audioFileUrl>> \in toolCalls

\* the read path's prober answered None for the dead-domain URL without
\* starting ffprobe, while the job started it for a dead-domain record
C9_Witness ==
    /\ ffprobe_installed
    /\ include_dead_urls
    /\ p_urls = <<UrlDead>>
    /\ p_pc = "returned"
    /\ fresult[1] = None
    /\ <<"app", UrlDead>> \notin toolCalls
    /\ <<"job", UrlDead>> \in toolCalls
    /\ \E k \in 1..Len(log) : db[log[k].id].audioFileUrl = UrlDead

(***************************************************************************)
(* Claims about the read path and the cache file                           *)
(***************************************************************************)
\* C3: the cache is written to the file at every batch boundary: when batch
\* k has been probed and the loop goes on, the file holds the results of
\* batches 1..k.
C3_SavedAtBatchBoundary ==
    (r_pc = "batch" /\ r_i > 0) =>
        \A k \in 1..r_i : DictHas(load_duration_cache(file), uncached_urls[k])

\* C4: from the moment a save begins, a load observes the complete previous
\* mapping or the complete new one, never an empty or partial one.
C4_AtomicSave ==
    save_new # <<>> => load_duration_cache(file) \in {save_prev, save_new}

\* C5: with ffprobe installed and remote files never changing, every cache
\* entry, in memory and in the file, equals what a fresh probe of its URL
\* returns (0.0 for no value).
C5_CacheMatchesProbe ==
    ffprobe_installed =>
        /\ \A k \in 1..Len(duration_cache) :
            duration_cache[k].dur = OrZero(Remote(duration_cache[k].url))
        /\ \A k \in 1..Len(load_duration_cache(file)) :
            load_duration_cache(file)[k].dur
                = OrZero(Remote(load_duration_cache(file)[k].url))

\* C10: with ffprobe missing every caller aborts: the job counts no record
\* failed, and the read path puts no 0.0 entry for a probeable URL into the
\* cache, in memory or in the file.
C10_MissingToolAborts ==
    ~ffprobe_installed =>
        /\ failed = 0
        /\ \A k \in 1..Len(duration_cache) :
            AppGuardPasses(duration_cache[k].url) => duration_cache[k].dur # 0
        /\ \A k \in 1..Len(load_duration_cache(file)) :
            AppGuardPasses(load_duration_cache(file)[k].url)
                => load_duration_cache(file)[k].dur # 0

(***************************************************************************)
(* Claims about how the job ends                                           *)
(***************************************************************************)
\* C11 as stated: the job ends aborted with exit status 1 only when the
\* database cannot be opened or ffprobe is missing; every other run, one
\* that selects zero records included, prints the summary and exits 0.
C11_SummaryThenExitZero ==
    /\ j_pc = "aborted" => (exit_code = Some(1) /\ (~ffprobe_installed \/ i = 0))
    /\ j_pc = "done" => (summary /\ exit_code = Some(0))

\* C11 amended: the job ends aborted with exit status 1 only when the
\* database cannot be opened (before anything is fetched) or ffprobe is
\* missing (at the first probe, before any record is reported); every other
\* run exits 0, after printing the summary when it selected at least one
\* record, even if every record failed, and without a summary ("Nothing to
\* do!") when it selected none.
C11_ExitStatus ==
    /\ exit_code # None <=> j_pc \in {"done", "aborted"}
    /\ j_pc = "aborted" =>
        /\ exit_code = Some(1)
        /\ ~summary
        /\ i = 0 \/ (~ffprobe_installed /\ i = 1 /\ log = <<>>)
    /\ j_pc = "done" =>
        /\ exit_code = Some(0)
        /\ summary <=> recordings # <<>>

\* a finished run in which each of two or more selected records failed
C11_Witness ==
    /\ j_pc = "done"
    /\ summary
    /\ exit_code = Some(0)
    /\ Len(recordings) >= 2
    /\ failed = Len(recordings)
    /\ success = 0

(***************************************************************************)
(* Claims about get_durations_parallel                                     *)
(***************************************************************************)
\* how far the call has got: every step of the pool moves one task forward
\* or ends the call
RECURSIVE ParProgress(_)
ParProgress(f) ==
    IF f = 0 THEN (IF p_pc = "call" THEN 0 ELSE IF p_pc = "pool" THEN 1 ELSE 2)
    ELSE ParProgress(f - 1)
         + (IF f \notin DOMAIN fstate THEN 0
            ELSE IF fstate[f] = "queued" THEN 0
            ELSE IF fstate[f] = "running" THEN 1
            ELSE IF fstate[f] = "done" THEN 2 ELSE 3)

\* C12: in get_durations_parallel a probe that returns None or raises puts
\* 0.0 at its own index and nowhere else: every other index holds what its
\* own probe returned; and the call still returns: until it has returned
\* some step is possible and every step brings it nearer to the return.
C12_FailureIsolated ==
    /\ [](p_pc = "returned" =>
            \A k \in 1..Len(p_urls) :
                /\ fresult[k].kind \in {"none", "raised"} => p_ret[k] = 0
                /\ fresult[k].kind = "value" => p_ret[k] = fresult[k].val)
    /\ [](p_pc # "returned" => ENABLED ParNext)
    /\ [][ParProgress(Len(p_urls))' > ParProgress(Len(p_urls))]_vars

\* a returned call in which one probe returned None, one raised and one
\* gave a duration
C12_Witness ==
    /\ p_pc = "returned"
    /\ Len(p_urls) = 3
    /\ fresult[1] = None /\ AppGuardPasses(p_urls[1]) /\ ffprobe_installed
    /\ fresult[2] = Raised
    /\ fresult[3].kind = "value"
    /\ p_ret = <<0, 0, fresult[3].val>>
    /\ p_ret[3] > 0

(***************************************************************************)
(* Claims about the cache file's format                                    *)
(***************************************************************************)
\* C13: a load after a completed save returns the mapping that was saved,
\* the empty mapping included; and a load of a missing or corrupt file
\* returns the empty mapping and raises nothing.
C13_RoundTrip ==
    /\ (r_pc = "render" /\ save_new = duration_cache) =>
            (~LoadRaises(file) /\ load_duration_cache(file) = save_new)
    /\ (~file.exists \/ ~WellFormed(file.text)) => load_duration_cache(file) = <<>>
    /\ r_pc # "raised"

(***************************************************************************)
(* Claims about the sidebar filters                                        *)
(***************************************************************************)
\* the rows of df that agree with the selections made in the given columns
Agreeing(cols) ==
    LET sel == [org_name |-> selected_org, student_name |-> selected_student,
                activity_name |-> selected_activity, topic_name |-> selected_topic]
    IN {k \in 1..Len(df) : \A c \in cols : sel[c] = "All" \/ df[k][c] = sel[c]}

\* the options are "All" and exactly the values of the column in the rows,
\* and every option leaves at least one of the rows
OptionsFit(options, rows, column) ==
    /\ options = {"All"} \cup {df[k][column] : k \in rows}
    /\ \A c \in options : \E k \in rows : c = "All" \/ df[k][column] = c

\* C14: each filter, in the order organization, student, activity, topic,
\* offers "All" and exactly the distinct values of its column in the rows
\* left by the selections made before it, so that every option leaves at
\* least one row; after an organization is selected the student options are
\* exactly the students with a READY recording in that organization.
C14_CascadingFilters ==
    /\ f_pc \in {"student", "activity", "topic", "shown"} =>
        /\ OptionsFit(orgs, Agreeing({}), "org_name")
        /\ selected_org \in orgs
    /\ f_pc \in {"activity", "topic", "shown"} =>
        /\ OptionsFit(students, Agreeing({"org_name"}), "student_name")
        /\ selected_student \in students
        /\ selected_org # "All" =>
            students \ {"All"} =
                {f_table[k].student_name : k \in {n \in 1..Len(f_table) :
                    f_table[n].status = "READY" /\ f_table[n].org_name = selected_org}}
    /\ f_pc \in {"topic", "shown"} =>
        /\ OptionsFit(activities, Agreeing({"org_name", "student_name"}), "activity_name")
        /\ selected_activity \in activities
    /\ f_pc = "shown" =>
        /\ OptionsFit(topics, Agreeing({"org_name", "student_name", "activity_name"}),
                      "topic_name")
        /\ selected_topic \in topics
        /\ filtered_df # <<>>

\* Acme is selected; Cat, whose only Acme recording is not READY and who has
\* a READY one under Beta, is not offered, Ana and Ben are; then Ana and her
\* activity and topic are selected
C14_Witness ==
    /\ f_pc = "shown"
    /\ selected_org = "Acme"
    /\ \E n \in 1..Len(f_table) : f_table[n] = Joined("Acme", "Cat", "Quiz", "Verbs", "PENDING")
    /\ \E n \in 1..Len(f_table) : f_table[n] = Joined("Beta", "Cat", "Talk", "Verbs", "READY")
    /\ students = {"All", "Ana"}
    /\ selected_student = "Ana"
    /\ selected_activity = "Talk"
    /\ selected_topic = "No Topic"
    /\ Len(filtered_df) = 1

(***************************************************************************)
(* Claims about extract_transcript_from_segments                           *)
(***************************************************************************)
Spaces(n) == [k \in 1..n |-> " "]

\* t is str without its leading and trailing spaces
IsTrimOf(t, str) ==
    /\ t = <<>> \/ (t[1] # " " /\ t[Len(t)] # " ")
    /\ \E a, b \in 0..Len(str) : str = Spaces(a) \o t \o Spaces(b)

\* the trimmed content of segment k
Trimmed(k) ==
    LET str == report_json.segments[k].content
    IN CHOOSE t \in {SubSeq(str, a, b) : a \in 1..(Len(str) + 1), b \in 0..Len(str)} :
            IsTrimOf(t, str)

\* the segments whose content is non-empty after trimming
Spoken == {k \in 1..Len(report_json.segments) : Trimmed(k) # <<>>}

\* the name for a speaker id: that of the last speaker_map entry for the id
\* ("Unknown" when the entry has no name), else the id itself
Named(id) ==
    LET map == report_json.speaker_map
        hits == {n \in 1..Len(map) : map[n].speaker_id = id}
    IN IF hits = {} THEN id
       ELSE LET last == CHOOSE n \in hits : \A m \in hits : m <= n
            IN IF map[last].speaker_name = Missing
               THEN <<"U", "n", "k", "n", "o", "w", "n">> ELSE map[last].speaker_name

\* the lines '[name]: content' of the segments in S, in segment order,
\* joined by newlines
RECURSIVE LinesOf(_)
LinesOf(S) ==
    IF S = {} THEN <<>>
    ELSE LET k == CHOOSE x \in S : \A y \in S : x <= y
             line == <<"[">> \o Named(report_json.segments[k].speaker)
                     \o <<"]", ":", " ">> \o Trimmed(k)
         IN IF S = {k} THEN line ELSE line \o <<"\n">> \o LinesOf(S \ {k})

WellTyped == \A k \in 1..Len(report_json.segments) : report_json.segments[k].content # Null

\* C15 as stated: the function returns None when the report has no
\* segments; otherwise its output is one line '[name]: content' per segment
\* with non-empty trimmed content, in segment order.
C15_LinePerSpokenSegment ==
    (t_pc = "returned" /\ WellTyped) =>
        IF report_json.segments = <<>>
        THEN transcript = None
        ELSE transcript = Some(LinesOf(Spoken))

\* C15 amended: the function returns None when the report is absent, has no
\* segments, has no segment whose content is non-empty after trimming, or
\* has a segment whose content is null; otherwise its output is, in segment
\* order, one line '[name]: content' per segment with non-empty trimmed
\* content, the name taken from speaker_map ("Unknown" for an entry without
\* name) or else the raw speaker id.
C15_Transcript ==
    t_pc = "returned" =>
        IF ~WellTyped \/ Spoken = {}
        THEN transcript = None
        ELSE transcript = Some(LinesOf(Spoken))

\* segments [' hi ' by S0, '' by S1] with S0 mapped to Ana give '[Ana]: hi'
C15_Witness ==
    /\ t_pc = "returned"
    /\ report_json.segments = <<Segment(<<"S", "0">>, <<" ", "h", "i", " ">>),
                                Segment(<<"S", "1">>, <<>>)>>
    /\ report_json.speaker_map = <<Mapping(<<"S", "0">>, <<"A", "n", "a">>)>>
    /\ transcript = Some(<<"[", "A", "n", "a", "]", ":", " ", "h", "i">>)

(***************************************************************************)
(* Claims about interrupted and failing live runs                          *)
(***************************************************************************)
\* the identifiers this run has reported UPDATED
UpdatedIds == {log[k].id : k \in {n \in 1..Len(log) : log[n].outcome = "UPDATED"}}

\* C16: at whatever point a live run is interrupted, every record reported
\* UPDATED holds its new duration; the open transaction never holds more
\* than the update of the record in flight, so that record is the only one
\* the interruption can leave without its update, and no other record's
\* stored duration has changed.
C16_CommittedSurvive ==
    ~dry_run =>
        /\ \A k \in 1..Len(log) :
                log[k].outcome = "UPDATED" => db[log[k].id].duration = log[k].new
        /\ Len(txn) <= 1
        /\ \A n \in 1..Len(txn) : txn[n].id = recordings[i].id
        /\ i >= 1 => Len(log) = i - 1
        /\ j_pc = "interrupted" =>
            /\ txn = <<>>
            /\ \A id \in Ids :
                db[id] # db_start[id] =>
                    \/ id \in UpdatedIds
                    \/ i \in 1..Len(recordings) /\ id = recordings[i].id

\* a live run interrupted while its third record, already probed, was being
\* written: the first two keep their new durations, the third has its old one
C16_Witness ==
    /\ ~dry_run
    /\ run = 1
    /\ j_pc = "interrupted"
    /\ LogIds = <<1, 2>>
    /\ UpdatedIds = {1, 2}
    /\ db[1].duration = Some(45300)
    /\ db[2].duration = Some(12345)
    /\ i = 3
    /\ Len(recordings) = 3
    /\ duration_ms = ToMillis(Remote(recordings[3].audioFileUrl).val)
    /\ db[3] = db_start[3]

\* the lines of the given outcome
Count(outcome) == Cardinality({k \in 1..Len(log) : log[k].outcome = outcome})

\* C17: in a live run a record whose update or commit failed keeps its
\* stored duration, is counted as failed and not as succeeded, and leaves
\* nothing pending; the job goes on with the next record, and the records
\* committed before it keep their new durations.
C17_FailedUpdateRolledBack ==
    ~dry_run =>
        /\ \A k \in 1..Len(log) :
            /\ log[k].outcome = "DB ERROR" => db[log[k].id] = db_start[log[k].id]
            /\ log[k].outcome = "UPDATED" => db[log[k].id].duration = log[k].new
        /\ failed = Count("DB ERROR") + Count("FAILED")
        /\ success = Count("UPDATED")
        /\ j_pc = "loop" => (txn = <<>> /\ i = Len(log) + 1)

\* the commit of the second of three records failed: the first and the
\* third are updated, the second holds what it held
C17_Witness ==
    /\ ~dry_run
    /\ j_pc = "done"
    /\ summary
    /\ LogIds = <<1, 2, 3>>
    /\ log[1].outcome = "UPDATED"
    /\ log[2].outcome = "DB ERROR"
    /\ log[3].outcome = "UPDATED"
    /\ db[1].duration = Some(45300)
    /\ db[2] = db_start[2]
    /\ db[3].duration = Some(7000)
    /\ success = 2
    /\ failed = 1

(***************************************************************************)
(* Claims about restarting the job                                         *)
(***************************************************************************)
\* C18: after a run was interrupted and a second run, started with
\* resume_from set to the last identifier seen from the first and the other
\* flags unchanged, has completed, every record the first run had selected
\* has been probed to an outcome in the first run or in the second.
C18_RestartCovers ==
    (run = 2 /\ j_pc = "done") =>
        \A k \in 1..Len(prev_recordings) :
            \/ \E n \in 1..Len(prev_log) : prev_log[n].id = prev_recordings[k].id
            \/ \E n \in 1..Len(log) : log[n].id = prev_recordings[k].id

\* the first run, over three records, finished record 1 and was interrupted
\* with record 2 in flight; the run resumed from 2 handled records 2 and 3
C18_Witness ==
    /\ run = 2
    /\ j_pc = "done"
    /\ summary
    /\ Len(prev_recordings) = 3
    /\ [k \in 1..Len(prev_log) |-> prev_log[k].id] = <<1>>
    /\ printed_id = Some(2)
    /\ resume_from = Some(2)
    /\ LogIds = <<2, 3>>

(***************************************************************************)
(* Claims about --limit                                                    *)
(***************************************************************************)
\* the identifiers the run selects before any limit, in ascending order
SelectedIds == OrderByIdAsc(Selected(db_start, resume_from, ~include_dead_urls))

Min(a, b) == IF a <= b THEN a ELSE b

\* C19: whenever a limit L >= 0 is given, the records a finished run has
\* processed are exactly the first min(L, n) of the n selected records in
\* ascending identifier order, never more than L.
C19_LimitCaps ==
    (limit.kind = "value" /\ j_pc = "done") =>
        /\ LogIds = SubSeq(SelectedIds, 1, Min(limit.val, Len(SelectedIds)))
        /\ Len(log) <= limit.val

(***************************************************************************)
(* Claims about termination of the job                                     *)
(***************************************************************************)
\* C20: with ffprobe installed a run that has selected at least one record
\* reaches the summary; at the summary each selected record has been
\* handled exactly once, in order, and succeeded + failed + skipped is the
\* number of selected records; a probe that fails is counted as failed and
\* the loop goes on with the next record.
C20_ReachesSummary ==
    /\ [](summary =>
            /\ LogIds = [k \in 1..Len(recordings) |-> recordings[k].id]
            /\ success + failed + skipped = Len(recordings))
    /\ [][(Len(log') = Len(log) + 1 /\ log'[Len(log')].outcome = "FAILED") =>
            (failed' = failed + 1 /\ success' = success /\ i' = i + 1
             /\ j_pc' = "loop")]_vars
    /\ (ffprobe_installed /\ j_pc = "loop") ~> (j_pc = "done" /\ summary)

\* a finished run over three records in which a probe failed and another
\* record succeeded
C20_Witness ==
    /\ ffprobe_installed
    /\ j_pc = "done"
    /\ summary
    /\ Len(recordings) = 3
    /\ log[1].outcome = "FAILED"
    /\ log[3].outcome \in {"UPDATED", "(dry run)"}
    /\ failed >= 1
    /\ success >= 1
    /\ success + failed + skipped = 3

(***************************************************************************)
(* Claims about sessions sharing the cache file                            *)
(***************************************************************************)
\* no save is under way in either session
Quiet == r_pc # "save_write" /\ o_pc # "save_write"

\* C21: with two sessions running the read path concurrently, no update is
\* lost: whenever no save is under way, every key that a completed save of
\* either session has written is still in the file.
C21_NoLostUpdate ==
    Quiet => \A key \in saved : DictHas(load_duration_cache(file), key)

(***************************************************************************)
(* Claims about failed probes in the cache                                 *)
(***************************************************************************)
\* C22: a URL that is a key of the cache is not among the URLs still to be
\* handed to the prober, a value of 0.0 included; and a URL whose probe has
\* once given 0.0 holds 0.0 in the cache of every later run of the read
\* path.
C22_FailureSticks ==
    /\ r_pc = "batch" =>
            \A k \in (r_i + 1)..Len(uncached_urls) :
                ~DictHas(duration_cache, uncached_urls[k])
    /\ \A url \in zeroed :
            \A k \in 1..Len(duration_cache) :
                duration_cache[k].url = url => duration_cache[k].dur = 0

====
